---------------------------- MODULE Spec2Model ----------------------------
(***************************************************************************)
(* Response scoring of DomainInsightHub (server/services/ai.ts): the three *)
(* heuristic functions calculateSentimentScore, analyzeKeywordRelevance    *)
(* and calculatePerformanceScore.                                          *)
(*                                                                         *)
(* A JavaScript string is a sequence of one-character strings, so that     *)
(* toLowerCase, split(/\s+/), includes and replace(/\s+/g, '') are         *)
(* computed character by character as the runtime computes them.           *)
(***************************************************************************)
EXTENDS Integers, Sequences, FiniteSets, TLC

VARIABLES fn, pc, text, keywords, responseTime,
          sentimentScore, keywordRelevance, performanceScore,
          keywordsTable, analysesTable, req, keywordRequests,
          domainsStore, dreq, rank

\* The state of the domain routes and of the rankings request.
otherVars == <<domainsStore, dreq, rank>>

vars == <<fn, pc, text, keywords, responseTime,
          sentimentScore, keywordRelevance, performanceScore,
          keywordsTable, analysesTable, req, keywordRequests,
          domainsStore, dreq, rank>>

---------------------------------------------------------------------------
(* String primitives *)

UpperCase == <<"A","B","C","D","E","F","G","H","I","J","K","L","M","N","O","P","Q","R","S","T","U","V","W","X","Y","Z">>
LowerCase == <<"a","b","c","d","e","f","g","h","i","j","k","l","m","n","o","p","q","r","s","t","u","v","w","x","y","z">>

\* Characters matched by the regular expression class \s.
WhiteSpace == {" ", "\t", "\n", "\r", "\f"}

UpperCaseLetters == {UpperCase[i] : i \in 1..Len(UpperCase)}

toLowerCaseChar(c) ==
    IF c \in UpperCaseLetters
    THEN LowerCase[CHOOSE i \in 1..Len(UpperCase) : UpperCase[i] = c]
    ELSE c

\* Variant: the string is not lowercased.
toLowerCase_noOp(s) == s

\* String.prototype.toLowerCase
toLowerCase(s) == [i \in 1..Len(s) |-> toLowerCaseChar(s[i])]

\* String.prototype.includes: w occurs in s as a contiguous run of characters.
includes(s, w) ==
    \E i \in 0..(Len(s) - Len(w)) : \A j \in 1..Len(w) : s[i + j] = w[j]

\* s.replace(/\s+/g, ''): every run of whitespace is deleted.
replaceWhiteSpace(s) == SelectSeq(s, LAMBDA c : c \notin WhiteSpace)

\* s.split(/\s+/): the pieces between maximal runs of whitespace.  A leading
\* or trailing run leaves an empty piece, and "" splits into [""].
RECURSIVE split(_)
split(s) ==
    IF \A i \in 1..Len(s) : s[i] \notin WhiteSpace
    THEN <<s>>
    ELSE LET i == CHOOSE k \in 1..Len(s) :
                     /\ s[k] \in WhiteSpace
                     /\ \A m \in 1..(k - 1) : s[m] \notin WhiteSpace
             j == CHOOSE k \in (i + 1)..(Len(s) + 1) :
                     /\ k = Len(s) + 1 \/ s[k] \notin WhiteSpace
                     /\ \A m \in (i + 1)..(k - 1) : s[m] \in WhiteSpace
         IN  <<SubSeq(s, 1, i - 1)>> \o split(SubSeq(s, j, Len(s)))

\* Array.prototype.join
RECURSIVE join(_, _)
join(parts, sep) ==
    IF Len(parts) = 0 THEN <<>>
    ELSE IF Len(parts) = 1 THEN parts[1]
    ELSE parts[1] \o sep \o join(Tail(parts), sep)

\* Variant: Math.floor in place of Math.round.
MathRound_floor(n, d) == n \div d

\* Math.round of the rational n / d (d > 0): the nearest integer, a tie
\* going to the larger one.
MathRound(n, d) == (2 * n + d) \div (2 * d)

Min(a, b) == IF a < b THEN a ELSE b
Max(a, b) == IF a > b THEN a ELSE b

---------------------------------------------------------------------------
(* calculateSentimentScore *)

positiveWords == <<<<"e","x","c","e","l","l","e","n","t">>, <<"g","r","e","a","t">>, <<"g","o","o","d">>, <<"p","o","s","i","t","i","v","e">>, <<"s","t","r","o","n","g">>,
                   <<"p","o","t","e","n","t","i","a","l">>, <<"o","p","p","o","r","t","u","n","i","t","y">>, <<"s","u","c","c","e","s","s">>, <<"e","f","f","e","c","t","i","v","e">>,
                   <<"v","a","l","u","a","b","l","e">>>>
negativeWords == <<<<"p","o","o","r">>, <<"b","a","d">>, <<"n","e","g","a","t","i","v","e">>, <<"w","e","a","k">>, <<"p","r","o","b","l","e","m">>, <<"i","s","s","u","e">>,
                   <<"c","h","a","l","l","e","n","g","e">>, <<"d","i","f","f","i","c","u","l","t","y">>, <<"r","i","s","k">>, <<"c","o","n","c","e","r","n">>>>

\* markers.some(m => word.includes(m))
someIncluded(word, markers) ==
    \E k \in 1..Len(markers) : includes(word, markers[k])

\* Variant: a word counts only when it equals a marker.
countWords_exactMatch(words, markers) ==
    Cardinality({i \in 1..Len(words) :
                    \E k \in 1..Len(markers) : words[i] = markers[k]})

\* The forEach over words: how many words hold one of the markers.
countWords(words, markers) ==
    Cardinality({i \in 1..Len(words) : someIncluded(words[i], markers)})

\* Variant: the percentage is taken against the negative count alone.
sentimentFromCounts_ratioToNegative(positiveCount, negativeCount) ==
    IF positiveCount + negativeCount = 0 THEN 75
    ELSE IF negativeCount = 0 THEN 100
    ELSE MathRound(positiveCount * 100, negativeCount)

\* Variant: the neutral default is 50.
sentimentFromCounts_neutral50(positiveCount, negativeCount) ==
    IF positiveCount + negativeCount = 0 THEN 50
    ELSE MathRound(positiveCount * 100, positiveCount + negativeCount)

\* Variant: the neutral default is returned when no positive word is found.
sentimentFromCounts_noPositiveIsNeutral(positiveCount, negativeCount) ==
    IF positiveCount = 0 THEN 75
    ELSE MathRound(positiveCount * 100, positiveCount + negativeCount)

\* The result once both counters are known.
sentimentFromCounts(positiveCount, negativeCount) ==
    LET totalSentimentWords == positiveCount + negativeCount
    IN  IF totalSentimentWords = 0 THEN 75
        ELSE MathRound(positiveCount * 100, totalSentimentWords)

calculateSentimentScore(t) ==
    LET words == split(toLowerCase(t))
    IN  sentimentFromCounts(countWords(words, positiveWords),
                            countWords(words, negativeWords))

---------------------------------------------------------------------------
(* analyzeKeywordRelevance *)

\* Variant: empty words of the text are skipped.
keywordMatches_skipEmptyWord(textLower, keywordLower) ==
    \/ includes(textLower, keywordLower)
    \/ includes(textLower, replaceWhiteSpace(keywordLower))
    \/ LET words == split(textLower)
       IN  \E i \in 1..Len(words) :
               /\ words[i] # <<>>
               /\ \/ includes(words[i], keywordLower)
                  \/ includes(keywordLower, words[i])

\* Variant: the test against the keyword without its whitespace is missing.
keywordMatches_noStripped(textLower, keywordLower) ==
    \/ includes(textLower, keywordLower)
    \/ LET words == split(textLower)
       IN  \E i \in 1..Len(words) :
               \/ includes(words[i], keywordLower)
               \/ includes(keywordLower, words[i])

\* The condition under which a keyword is pushed.
keywordMatches(textLower, keywordLower) ==
    \/ includes(textLower, keywordLower)
    \/ includes(textLower, replaceWhiteSpace(keywordLower))
    \/ LET words == split(textLower)
       IN  \E i \in 1..Len(words) :
               \/ includes(words[i], keywordLower)
               \/ includes(keywordLower, words[i])

\* Variant: a keyword already in the result is not pushed again.
pushKeyword_unique(relevantKeywords, keyword) ==
    IF \E i \in 1..Len(relevantKeywords) : relevantKeywords[i] = keyword
    THEN relevantKeywords
    ELSE Append(relevantKeywords, keyword)

\* Variant: the keyword is put in front (unshift).
pushKeyword_unshift(relevantKeywords, keyword) ==
    <<keyword>> \o relevantKeywords

\* Variant: the lowercased keyword is pushed.
pushKeyword_lowerCase(relevantKeywords, keyword) ==
    Append(relevantKeywords, toLowerCase(keyword))

\* What is pushed onto relevantKeywords for a matching keyword.
pushKeyword(relevantKeywords, keyword) == Append(relevantKeywords, keyword)

RECURSIVE forEachKeyword(_, _, _, _)
forEachKeyword(textLower, kws, i, relevantKeywords) ==
    IF i > Len(kws) THEN relevantKeywords
    ELSE forEachKeyword(textLower, kws, i + 1,
             IF keywordMatches(textLower, toLowerCase(kws[i]))
             THEN pushKeyword(relevantKeywords, kws[i])
             ELSE relevantKeywords)

analyzeKeywordRelevance(t, kws) ==
    forEachKeyword(toLowerCase(t), kws, 1, <<>>)

---------------------------------------------------------------------------
(* calculatePerformanceScore *)

qualityWords == <<<<"s","t","r","a","t","e","g","y">>, <<"a","n","a","l","y","s","i","s">>, <<"r","e","c","o","m","m","e","n","d","a","t","i","o","n">>, <<"i","n","s","i","g","h","t">>,
                  <<"o","p","p","o","r","t","u","n","i","t","y">>, <<"p","o","t","e","n","t","i","a","l">>, <<"m","a","r","k","e","t">>, <<"c","o","m","p","e","t","i","t","i","v","e">>,
                  <<"g","r","o","w","t","h">>>>

\* Variant: the bonus is not capped.
lengthBonus_noCap(t) == Len(t) \div 100

lengthBonus(t) == Min(20, Len(t) \div 100)

\* Variant: a response of 5000 ms or more is penalised.
speedBonus_penalty(rt) == IF rt < 3000 THEN 10 ELSE IF rt < 5000 THEN 5 ELSE -5

\* Variant: the two limits are inclusive.
speedBonus_inclusive(rt) == IF rt <= 3000 THEN 10 ELSE IF rt <= 5000 THEN 5 ELSE 0

speedBonus(rt) == IF rt < 3000 THEN 10 ELSE IF rt < 5000 THEN 5 ELSE 0

\* How often w occurs in s (overlapping occurrences counted).
occurrences(s, w) ==
    Cardinality({i \in 0..(Len(s) - Len(w)) :
                    \A j \in 1..Len(w) : s[i + j] = w[j]})

RECURSIVE sumOccurrences(_, _, _)
sumOccurrences(s, ws, k) ==
    IF k > Len(ws) THEN 0
    ELSE occurrences(s, ws[k]) + sumOccurrences(s, ws, k + 1)

\* Variant: every occurrence of a quality word adds 2.
qualityScore_perOccurrence(t) ==
    sumOccurrences(toLowerCase(t), qualityWords, 1) * 2

\* qualityWords.filter(word => text.toLowerCase().includes(word)).length * 2
qualityScore(t) ==
    LET textLower == toLowerCase(t)
    IN  Cardinality({k \in 1..Len(qualityWords) :
                        includes(textLower, qualityWords[k])}) * 2

\* Variant: the upper clamp is missing.
clampScore_noUpperBound(score) == Max(0, MathRound(score, 1))

\* Math.min(100, Math.max(0, Math.round(score)))
clampScore(score) == Min(100, Max(0, MathRound(score, 1)))

\* Variant: the sum starts from 50, not from the sentiment score.
calculatePerformanceScore_fixedBase(t, sentiment, rt) ==
    clampScore(50 + lengthBonus(t) + speedBonus(rt) + qualityScore(t))

calculatePerformanceScore(t, sentiment, rt) ==
    clampScore(sentiment + lengthBonus(t) + speedBonus(rt) + qualityScore(t))

---------------------------------------------------------------------------
(* The simulated engine response of analyzeWithGemini *)

simulatedResponse(kws) ==
    <<"G","e","m","i","n","i"," ","A","n","a","l","y","s","i","s",":"," ","B","a","s","e","d"," ","o","n"," ","t","h","e"," ","p","r","o","v","i","d","e","d"," ","p","r","o","m","p","t",","," ","h","e","r","e"," ","a","r","e"," ","t","h","e"," ","k","e","y"," ","i","n","s","i","g","h","t","s"," ","a","n","d"," ","r","e","c","o","m","m","e","n","d","a","t","i","o","n","s","."," ","T","h","e"," ","a","n","a","l","y","s","i","s"," ","s","u","g","g","e","s","t","s"," ","s","t","r","o","n","g"," ","p","o","t","e","n","t","i","a","l"," ","f","o","r"," ","m","a","r","k","e","t"," ","p","o","s","i","t","i","o","n","i","n","g"," ","a","n","d"," ","u","s","e","r"," ","e","n","g","a","g","e","m","e","n","t"," ","s","t","r","a","t","e","g","i","e","s","."," ","K","e","y","w","o","r","d","s"," ","l","i","k","e"," ">>
    \o join(SubSeq(kws, 1, Min(2, Len(kws))), <<","," ">>)
    \o <<" ","s","h","o","w"," ","h","i","g","h"," ","r","e","l","e","v","a","n","c","e"," ","f","o","r"," ","s","t","r","a","t","e","g","i","c"," ","i","m","p","l","e","m","e","n","t","a","t","i","o","n",".">>

---------------------------------------------------------------------------
(* Inputs *)

\* One character outside A-Z and a-z: U+0131, the lowercase dotless i.
\* toLowerCase leaves it alone, toUpperCase makes it I.
DotlessI == "U+0131"

MaxPieces == 4
MaxKeywordTextPieces == 2
MaxPerfTextPieces == 1
MaxKeywords == 3

\* A generated text is a run of at most n of these pieces.
Pieces == <<<<"g","o","o","d">>, <<"B","A","D">>, <<" ">>, <<"\n">>, <<"M","a","r","k","e","t">>, <<"x">>>>

RECURSIVE concat(_)
concat(ps) == IF Len(ps) = 0 THEN <<>> ELSE Pieces[ps[1]] \o concat(Tail(ps))

PieceTexts(n) ==
    {concat(ps) : ps \in UNION {[1..m -> 1..Len(Pieces)] : m \in 0..n}}

ExampleTexts ==
    { <<"a","n","a","l","y","s","i","s"," ","a","n","a","l","y","s","i","s"," ","a","n","a","l","y","s","i","s">>,
      <<"e","x","c","e","l","l","e","n","t"," ","g","r","e","a","t"," ","s","t","r","o","n","g">>,
      <<"p","o","o","r"," ","b","a","d"," ","w","e","a","k">>,
      <<"W","e"," ","s","e","e"," ","s","t","r","o","n","g"," ","g","r","o","w","t","h"," ","p","o","t","e","n","t","i","a","l">>,
      <<"m","a","r","k","e","t","s","h","a","r","e"," ","i","s"," ","i","n","c","r","e","a","s","i","n","g">>,
      <<"g","o","o","d"," ","b","a","d"," ","b","a","d"," ","b","a","d"," ","b","a","d"," ","b","a","d"," ","b","a","d"," ","b","a","d">>,
      <<" ","S","t","r","a","t","e","g","y"," ","a","n","d"," ","G","R","O","W","T","H",":"," ","a"," ","v","a","l","u","a","b","l","e"," ","o","p","p","o","r","t","u","n","i","t","y",","," ","n","o"," ","r","i","s","k"," ">>,
      simulatedResponse(<<>>),
      simulatedResponse(<<<<"M","a","r","k","e","t">>>>),
      \* with the letter U+0131, the dotless i, whose upper case is I
      <<"r", DotlessI, "s", "k">>,
      <<DotlessI>> \o <<"n","s","i","g","h","t",":"," ","S","T","R","O","N","G"," ","M","a","r","k","e","t">> }

SentimentTexts == PieceTexts(MaxPieces) \cup ExampleTexts
KeywordTexts == PieceTexts(MaxKeywordTextPieces) \cup ExampleTexts
PerfTexts == PieceTexts(MaxPerfTextPieces) \cup ExampleTexts

KeywordPool == <<<<"M","a","r","k","e","t">>, <<"m","a","r","k","e","t">>, <<"m","a","r","k","e","t"," ","s","h","a","r","e">>, <<"g","o","o","d","n","e","s","s">>, <<"z","z">>>>

KeywordSeqs ==
    UNION {[1..m -> {KeywordPool[k] : k \in 1..Len(KeywordPool)}] :
              m \in 0..MaxKeywords}

\* Keyword sequences with the empty keyword and the keyword "growth".
MaxEdgeKeywords == 2

EdgeKeywordSeqs ==
    UNION {[1..m -> {<<>>, <<"g","r","o","w","t","h">>, <<"G","r","o","w","t","h"," ","r","a","t","e">>}] : m \in 0..MaxEdgeKeywords}

\* Texts of a given length: runs of x, every seventh character a space.
Filler(n) == [i \in 1..n |-> IF i % 7 = 0 THEN " " ELSE "x"]

LengthTexts ==
    {Filler(n) : n \in {99, 100, 101, 199, 200, 1999, 2000, 2001, 2500}}

ResponseTimes == {-1, 0, 2000, 2999, 3000, 4999, 5000, 60000}

SentimentScores == 0..100

---------------------------------------------------------------------------
(* The database and the requests of POST /api/prompts/:promptId/analyze *)

MaxRequests == 2
MaxKeywordRequests == 1

Reqs == 1..MaxRequests

\* prompts: id -> domainId.  No route modelled here changes these rows.
promptsTable == [id \in {1, 2} |-> id]

domainsTable == {1, 2}

InitialKeywords ==
    { [id |-> 1, domainId |-> 1, value |-> <<"M","a","r","k","e","t">>],
      [id |-> 2, domainId |-> 2, value |-> <<"g","o","o","d">>] }

\* Request parameters and engine outcomes.
PromptIds == {1, 2, 3}
EngineChoices == {{"openai"}, {"gemini"}, {"openai", "gemini"}}
\* The keyword requests are for domain 1.
KeywordDomains == {1}
KeywordValues == {<<"z","z">>}
KeywordIds == {1}
\* An answer of the engine: choices[0].message.content (<<>> is null, <<t>>
\* the string t) and the time the call took.
OpenAIAnswers ==
    { [content |-> <<<<"g","o","o","d"," ","M","a","r","k","e","t">>>>, elapsedMs |-> 1200],
      [content |-> <<>>, elapsedMs |-> 4000] }
GeminiTimes == {1501}

IdleRequest ==
    [at |-> "idle", promptId |-> 0, engines |-> {}, domainId |-> 0,
     keywords |-> <<>>, reply |-> {}, analysisData |-> {}, analyses |-> <<>>,
     status |-> 0,
     \* history of the request, for the properties only
     readRows |-> {}, replies |-> <<>>, calls |-> <<>>, storeFailed |-> {}]

\* The domains table after the two domains of promptsTable were stored.
InitialDomains ==
    { [id |-> 1, name |-> <<"a",".","c","o","m">>, description |-> <<"o","l","d">>],
      [id |-> 2, name |-> <<"b",".","i","o">>, description |-> <<"s","h","o","p">>] }

\* Concurrent POST /api/domains/analyze requests.
MaxDomainRequests == 2
DReqs == 1..MaxDomainRequests

IdleDomainRequest ==
    [at |-> "idle", domainName |-> <<>>, domain |-> {}, analysisResult |-> {},
     left |-> <<>>, status |-> 0, body |-> {},
     \* history of the request, for the properties only
     found |-> {}, calledAI |-> FALSE, created |-> {}, createdDomain |-> {}]

\* The rankings request before it arrives.
IdleRanking ==
    [at |-> "idle", domainId |-> 0, domainKeywords |-> <<>>, i |-> 0,
     rankings |-> <<>>, status |-> 0, body |-> <<>>,
     \* history of the request, for the properties only
     mentionResults |-> <<>>]

\* The state the scoring calls and the analyze route start from.
InitOther ==
    /\ domainsStore = [rows |-> InitialDomains, serial |-> 3]
    /\ dreq = [d \in DReqs |-> IdleDomainRequest]
    /\ rank = IdleRanking

InitServer ==
    /\ keywordsTable = [rows |-> InitialKeywords, serial |-> 3]
    /\ analysesTable = <<>>
    /\ req = [r \in Reqs |-> IdleRequest]
    /\ keywordRequests = 0
    /\ InitOther

---------------------------------------------------------------------------
(* One invocation of a scoring function: Init fixes the function and its
   arguments, the call computes the result. *)

Init ==
    /\ pc = "call"
    /\ keywordRelevance = <<>>
    /\ performanceScore = -1
    /\ InitServer
    /\ \/ /\ fn = "calculateSentimentScore"
          /\ text \in SentimentTexts
          /\ keywords = <<>>
          /\ responseTime = 0
          /\ sentimentScore = -1
       \/ /\ fn = "analyzeKeywordRelevance"
          /\ text \in KeywordTexts
          /\ keywords \in KeywordSeqs
          /\ responseTime = 0
          /\ sentimentScore = -1
       \/ /\ fn = "analyzeKeywordRelevance"
          /\ text \in KeywordTexts
          /\ keywords \in EdgeKeywordSeqs
          /\ responseTime = 0
          /\ sentimentScore = -1
       \/ /\ fn = "calculatePerformanceScore"
          /\ text \in PerfTexts
          /\ keywords = <<>>
          /\ responseTime \in ResponseTimes
          /\ sentimentScore \in SentimentScores
       \/ /\ fn = "calculatePerformanceScore"
          /\ text \in LengthTexts
          /\ keywords = <<>>
          /\ responseTime \in {2000, 5000}
          /\ sentimentScore \in {0, 75, 80, 81, 100}

CallSentimentScore ==
    /\ pc = "call" /\ fn = "calculateSentimentScore"
    /\ sentimentScore' = calculateSentimentScore(text)
    /\ pc' = "return"
    /\ UNCHANGED <<fn, text, keywords, responseTime, keywordRelevance,
                   performanceScore>>
    /\ UNCHANGED <<keywordsTable, analysesTable, req, keywordRequests, otherVars>>

\* Variant: an empty keyword makes the call throw.
CallKeywordRelevance_throwsOnEmptyKeyword ==
    /\ pc = "call" /\ fn = "analyzeKeywordRelevance"
    /\ IF \E i \in 1..Len(keywords) : keywords[i] = <<>>
       THEN pc' = "throw" /\ UNCHANGED keywordRelevance
       ELSE /\ keywordRelevance' = analyzeKeywordRelevance(text, keywords)
            /\ pc' = "return"
    /\ UNCHANGED <<fn, text, keywords, responseTime, sentimentScore,
                   performanceScore>>
    /\ UNCHANGED <<keywordsTable, analysesTable, req, keywordRequests, otherVars>>

CallKeywordRelevance ==
    /\ pc = "call" /\ fn = "analyzeKeywordRelevance"
    /\ keywordRelevance' = analyzeKeywordRelevance(text, keywords)
    /\ pc' = "return"
    /\ UNCHANGED <<fn, text, keywords, responseTime, sentimentScore,
                   performanceScore>>
    /\ UNCHANGED <<keywordsTable, analysesTable, req, keywordRequests, otherVars>>

CallPerformanceScore ==
    /\ pc = "call" /\ fn = "calculatePerformanceScore"
    /\ performanceScore' =
           calculatePerformanceScore(text, sentimentScore, responseTime)
    /\ pc' = "return"
    /\ UNCHANGED <<fn, text, keywords, responseTime, sentimentScore,
                   keywordRelevance>>
    /\ UNCHANGED <<keywordsTable, analysesTable, req, keywordRequests, otherVars>>

Next == CallSentimentScore \/ CallKeywordRelevance \/ CallPerformanceScore

Spec == Init /\ [][Next]_vars

---------------------------------------------------------------------------
(* POST /api/prompts/:promptId/analyze, the keyword routes and the storage
   they use.  Each action is one run of the server between two awaits, or one
   event outside it (an engine answering). *)

scoringVars == <<fn, pc, text, keywords, responseTime,
                 sentimentScore, keywordRelevance, performanceScore>>

\* const result = await db.select()...limit(1); return result[0]
getPrompt(id) == IF id \in DOMAIN promptsTable THEN {promptsTable[id]} ELSE {}

getDomain(id) == IF id \in domainsTable THEN {id} ELSE {}

\* select().from(keywords).where(eq(keywords.domainId, domainId))
getKeywordsByDomain_noWhere(domainId) == keywordsTable.rows

getKeywordsByDomain(domainId) ==
    {k \in keywordsTable.rows : k.domainId = domainId}

\* The orders in which a select without ORDER BY can return a set of rows.
Orderings(rows) ==
    {o \in [1..Cardinality(rows) -> rows] :
        \A k \in rows : \E i \in 1..Cardinality(rows) : o[i] = k}

\* domain?.keywords.map(k => k.value)
mapValue(o) == [i \in 1..Len(o) |-> o[i].value]

\* response.choices[0].message.content || ""
responseContent(content) == IF content = <<>> THEN <<>> ELSE content[1]

\* The scoring of one response and the object the engine function returns.
AIAnalysisResult_countsInvocations(t, kws, elapsedMs) ==
    LET s == calculateSentimentScore(t)
    IN  [response |-> t,
         sentimentScore |-> s,
         responseTime |-> elapsedMs,
         keywordRelevance |-> analyzeKeywordRelevance(t, kws),
         performanceScore |->
             calculatePerformanceScore(t, s, elapsedMs)
                 - Min(1, Len(analysesTable))]

AIAnalysisResult(t, kws, elapsedMs) ==
    LET s == calculateSentimentScore(t)
    IN  [response |-> t,
         sentimentScore |-> s,
         responseTime |-> elapsedMs,
         keywordRelevance |-> analyzeKeywordRelevance(t, kws),
         performanceScore |-> calculatePerformanceScore(t, s, elapsedMs)]

\* The keywords argument of analyzeWithOpenAI / analyzeWithGemini: the
\* request's own const keywords.
callKeywords_shared(r) ==
    LET o == CHOOSE o \in Reqs : o # r
    IN  IF req[o].at \in {"openaiCall", "openaiReply", "openaiCreate",
                          "geminiCall", "geminiCreate"}
        THEN req[o].keywords
        ELSE req[r].keywords

callKeywords(r) == req[r].keywords

\* insertAnalysisSchema.parse({...})
analysisData_swapsScores(r, engine, res) ==
    [domainId |-> req[r].domainId,
     promptId |-> req[r].promptId,
     engine |-> engine,
     response |-> res.response,
     sentimentScore |-> res.performanceScore,
     responseTime |-> res.responseTime,
     keywordRelevance |-> res.keywordRelevance,
     performanceScore |-> res.sentimentScore]

analysisData(r, engine, res) ==
    [domainId |-> req[r].domainId,
     promptId |-> req[r].promptId,
     engine |-> engine,
     response |-> res.response,
     sentimentScore |-> res.sentimentScore,
     responseTime |-> res.responseTime,
     keywordRelevance |-> res.keywordRelevance,
     performanceScore |-> res.performanceScore]

\* Where the handler goes after the keywords are read, and after the openai
\* block.  After the last block res.json(analyses) ends the request.
afterOpenAI(engines) ==
    IF "gemini" \in engines THEN "geminiCall" ELSE "done"

statusAt(at, status) == IF at = "done" THEN 200 ELSE status

afterKeywords(engines) ==
    IF "openai" \in engines THEN "openaiCall" ELSE afterOpenAI(engines)

\* A request arrives (the requests are numbered in the order of arrival):
\* promptId and engines are parsed, getPrompt is awaited.
ReceiveAnalyze(r) ==
    /\ req[r].at = "idle"
    /\ \A o \in Reqs : o < r => req[o].at # "idle"
    /\ \E p \in PromptIds, e \in EngineChoices :
           req' = [req EXCEPT ![r].at = "getPrompt",
                              ![r].promptId = p,
                              ![r].engines = e]
    /\ UNCHANGED <<scoringVars, keywordsTable, analysesTable, keywordRequests,
                   otherVars>>

GetPrompt(r) ==
    /\ req[r].at = "getPrompt"
    /\ LET prompt == getPrompt(req[r].promptId)
       IN  IF prompt = {}
           THEN req' = [req EXCEPT ![r].status = 404, ![r].at = "done"]
           ELSE \E domainId \in prompt :
                    req' = [req EXCEPT ![r].domainId = domainId,
                                       ![r].at = "getDomain"]
    /\ UNCHANGED <<scoringVars, keywordsTable, analysesTable, keywordRequests,
                   otherVars>>

\* getDomainWithKeywords, first await.
GetDomain(r) ==
    /\ req[r].at = "getDomain"
    /\ IF getDomain(req[r].domainId) = {}
       THEN req' = [req EXCEPT
                      ![r].keywords = <<>>,
                      ![r].at = afterKeywords(req[r].engines),
                      ![r].status = statusAt(afterKeywords(req[r].engines), @)]
       ELSE req' = [req EXCEPT ![r].at = "getKeywords"]
    /\ UNCHANGED <<scoringVars, keywordsTable, analysesTable, keywordRequests,
                   otherVars>>

\* getDomainWithKeywords, second await; then const keywords = ... and the
\* call of the first engine function.
GetKeywords(r) ==
    /\ req[r].at = "getKeywords"
    /\ \E o \in Orderings(getKeywordsByDomain(req[r].domainId)) :
           req' = [req EXCEPT
                     ![r].keywords = mapValue(o),
                     ![r].readRows =
                         {k \in keywordsTable.rows :
                              k.domainId = req[r].domainId},
                     ![r].at = afterKeywords(req[r].engines),
                     ![r].status =
                         statusAt(afterKeywords(req[r].engines), @)]
    /\ UNCHANGED <<scoringVars, keywordsTable, analysesTable, keywordRequests,
                   otherVars>>

\* What the properties record when an engine call completes: the outcome and
\* the keyword rows of the request's domain stored at that moment.
Completion(r, engine, ok, elapsedMs) ==
    [engine |-> engine, ok |-> ok, responseTime |-> elapsedMs,
     stored |-> {k \in keywordsTable.rows : k.domainId = req[r].domainId}]

\* openai.chat.completions.create answers: the reply travels to the server.
OpenAIResponds(r) ==
    /\ req[r].at = "openaiCall"
    /\ \E answer \in OpenAIAnswers :
           req' = [req EXCEPT
                     ![r].reply = {[ok |-> TRUE, content |-> answer.content,
                                    responseTime |-> answer.elapsedMs]},
                     ![r].replies =
                         Append(@, Completion(r, "openai", TRUE,
                                              answer.elapsedMs)),
                     ![r].at = "openaiReply"]
    /\ UNCHANGED <<scoringVars, keywordsTable, analysesTable, keywordRequests,
                   otherVars>>

\* openai.chat.completions.create rejects (network, quota, bad key).
OpenAIFails(r) ==
    /\ req[r].at = "openaiCall"
    /\ req' = [req EXCEPT
                 ![r].reply = {[ok |-> FALSE, content |-> <<>>,
                                responseTime |-> 0]},
                 ![r].replies =
                     Append(@, Completion(r, "openai", FALSE, 0)),
                 ![r].at = "openaiReply"]
    /\ UNCHANGED <<scoringVars, keywordsTable, analysesTable, keywordRequests,
                   otherVars>>

\* What the properties record of one scoring.
ScoringCall(engine, kws, res) ==
    [engine |-> engine, text |-> res.response, keywords |-> kws,
     elapsedMs |-> res.responseTime,
     sentimentScore |-> res.sentimentScore,
     keywordRelevance |-> res.keywordRelevance,
     performanceScore |-> res.performanceScore]

\* Variant: the catch block scores an empty response instead of rethrowing.
AnalyzeWithOpenAIThrows_scoresEmpty(r) ==
    /\ req[r].at = "openaiReply"
    /\ \E reply \in req[r].reply :
        /\ ~reply.ok
        /\ \E res \in {AIAnalysisResult(<<>>, callKeywords(r), 0)} :
               req' = [req EXCEPT
                         ![r].reply = {},
                         ![r].analysisData = {analysisData(r, "openai", res)},
                         ![r].calls =
                             Append(@, ScoringCall("openai", callKeywords(r),
                                                   res)),
                         ![r].at = "openaiCreate"]
    /\ UNCHANGED <<scoringVars, keywordsTable, analysesTable, keywordRequests,
                   otherVars>>

\* The rejection reaches analyzeWithOpenAI: its catch rethrows, the route's
\* catch logs, and the handler goes on to the gemini block.
AnalyzeWithOpenAIThrows(r) ==
    /\ req[r].at = "openaiReply"
    /\ \E reply \in req[r].reply :
        /\ ~reply.ok
        /\ req' = [req EXCEPT
                      ![r].reply = {},
                      ![r].at = afterOpenAI(req[r].engines),
                      ![r].status = statusAt(afterOpenAI(req[r].engines), @)]
    /\ UNCHANGED <<scoringVars, keywordsTable, analysesTable, keywordRequests,
                   otherVars>>

\* The reply reaches analyzeWithOpenAI: the response is scored, the result
\* returned, the route parses the record and awaits createAnalysis.
AnalyzeWithOpenAIReturns(r) ==
    /\ req[r].at = "openaiReply"
    /\ \E reply \in req[r].reply :
        /\ reply.ok
        /\ \E res \in {AIAnalysisResult(responseContent(reply.content),
                                          callKeywords(r),
                                          reply.responseTime)} :
               req' = [req EXCEPT
                         ![r].reply = {},
                         ![r].analysisData = {analysisData(r, "openai", res)},
                         ![r].calls =
                             Append(@, ScoringCall("openai", callKeywords(r),
                                                   res)),
                         ![r].at = "openaiCreate"]
    /\ UNCHANGED <<scoringVars, keywordsTable, analysesTable, keywordRequests,
                   otherVars>>

\* The 1500 ms timer of analyzeWithGemini fires: the simulated response is
\* built and scored, the route parses the record and awaits createAnalysis.
AnalyzeWithGeminiReturns(r) ==
    /\ req[r].at = "geminiCall"
    /\ \E elapsedMs \in GeminiTimes :
        \E res \in {AIAnalysisResult(simulatedResponse(callKeywords(r)),
                                     callKeywords(r), elapsedMs)} :
            req' = [req EXCEPT
                      ![r].analysisData = {analysisData(r, "gemini", res)},
                      ![r].replies =
                          Append(@, Completion(r, "gemini", TRUE, elapsedMs)),
                      ![r].calls =
                          Append(@, ScoringCall("gemini", callKeywords(r),
                                                res)),
                      ![r].at = "geminiCreate"]
    /\ UNCHANGED <<scoringVars, keywordsTable, analysesTable, keywordRequests,
                   otherVars>>

\* storage.createAnalysis inserts the row; analyses.push(analysis); the
\* handler goes on to the next block or to res.json(analyses).  The rows of
\* analysesTable never change, and the request keeps the id of the row it was
\* returned.
CreateAnalysis(r) ==
    /\ req[r].at \in {"openaiCreate", "geminiCreate"}
    /\ \E data \in req[r].analysisData :
        LET analysis == [id |-> Len(analysesTable) + 1,
                         domainId |-> data.domainId,
                         promptId |-> data.promptId,
                         engine |-> data.engine,
                         response |-> data.response,
                         sentimentScore |-> data.sentimentScore,
                         responseTime |-> data.responseTime,
                         keywordRelevance |-> data.keywordRelevance,
                         performanceScore |-> data.performanceScore]
        IN  /\ analysesTable' = Append(analysesTable, analysis)
            /\ req' = [req EXCEPT
                         ![r].analysisData = {},
                         ![r].analyses = Append(@, analysis.id),
                         ![r].at = IF req[r].at = "openaiCreate"
                                   THEN afterOpenAI(req[r].engines)
                                   ELSE "done",
                         ![r].status =
                             IF req[r].at = "openaiCreate"
                             THEN statusAt(afterOpenAI(req[r].engines), @)
                             ELSE 200]
    /\ UNCHANGED <<scoringVars, keywordsTable, keywordRequests, otherVars>>

\* The inserts rejected so far.
MaxStoreFailures == 1
storeFailures ==
    Cardinality({p \in Reqs \X {"openai", "gemini"} :
                    p[2] \in req[p[1]].storeFailed})

\* Variant: a rejected insert ends the request with the 500 answer.
CreateAnalysisFails_rethrows(r) ==
    /\ req[r].at \in {"openaiCreate", "geminiCreate"}
    /\ storeFailures < MaxStoreFailures
    /\ req' = [req EXCEPT
                 ![r].analysisData = {},
                 ![r].storeFailed =
                     @ \cup {IF req[r].at = "openaiCreate" THEN "openai"
                                                           ELSE "gemini"},
                 ![r].at = "done",
                 ![r].status = 500]
    /\ UNCHANGED <<scoringVars, keywordsTable, analysesTable, keywordRequests,
                   otherVars>>

\* storage.createAnalysis rejects (the database is unreachable, the insert
\* fails): no row is stored, the block's catch logs, and the handler goes on
\* to the next block or to res.json(analyses).
CreateAnalysisFails(r) ==
    /\ req[r].at \in {"openaiCreate", "geminiCreate"}
    /\ storeFailures < MaxStoreFailures
    /\ req' = [req EXCEPT
                 ![r].analysisData = {},
                 ![r].storeFailed =
                     @ \cup {IF req[r].at = "openaiCreate" THEN "openai"
                                                           ELSE "gemini"},
                 ![r].at = IF req[r].at = "openaiCreate"
                           THEN afterOpenAI(req[r].engines)
                           ELSE "done",
                 ![r].status =
                     IF req[r].at = "openaiCreate"
                     THEN statusAt(afterOpenAI(req[r].engines), @)
                     ELSE 200]
    /\ UNCHANGED <<scoringVars, keywordsTable, analysesTable, keywordRequests,
                   otherVars>>

\* POST /api/keywords
CreateKeyword ==
    /\ keywordRequests < MaxKeywordRequests
    /\ \E domainId \in KeywordDomains, value \in KeywordValues :
           keywordsTable' =
               [rows |-> keywordsTable.rows \cup
                             {[id |-> keywordsTable.serial,
                               domainId |-> domainId, value |-> value]},
                serial |-> keywordsTable.serial + 1]
    /\ keywordRequests' = keywordRequests + 1
    /\ UNCHANGED <<scoringVars, analysesTable, req, otherVars>>

\* PUT /api/keywords/:id
UpdateKeyword ==
    /\ keywordRequests < MaxKeywordRequests
    /\ \E id \in KeywordIds, value \in KeywordValues :
           keywordsTable' =
               [keywordsTable EXCEPT
                  !.rows = {IF k.id = id THEN [k EXCEPT !.value = value]
                                         ELSE k : k \in @}]
    /\ keywordRequests' = keywordRequests + 1
    /\ UNCHANGED <<scoringVars, analysesTable, req, otherVars>>

\* DELETE /api/keywords/:id
DeleteKeyword ==
    /\ keywordRequests < MaxKeywordRequests
    /\ \E id \in KeywordIds :
           keywordsTable' =
               [keywordsTable EXCEPT !.rows = {k \in @ : k.id # id}]
    /\ keywordRequests' = keywordRequests + 1
    /\ UNCHANGED <<scoringVars, analysesTable, req, otherVars>>

NextAnalyze ==
    \/ \E r \in Reqs :
           \/ ReceiveAnalyze(r)
           \/ GetPrompt(r)
           \/ GetDomain(r)
           \/ GetKeywords(r)
           \/ OpenAIResponds(r)
           \/ OpenAIFails(r)
           \/ AnalyzeWithOpenAIReturns(r)
           \/ AnalyzeWithOpenAIThrows(r)
           \/ AnalyzeWithGeminiReturns(r)
           \/ CreateAnalysis(r)
           \/ CreateAnalysisFails(r)
    \/ CreateKeyword
    \/ UpdateKeyword
    \/ DeleteKeyword

InitAnalyze ==
    /\ fn = "analyzeRoute"
    /\ pc = "serve"
    /\ text = <<>>
    /\ keywords = <<>>
    /\ responseTime = 0
    /\ sentimentScore = -1
    /\ keywordRelevance = <<>>
    /\ performanceScore = -1
    /\ InitServer

SpecAnalyze == InitAnalyze /\ [][NextAnalyze]_vars

----------------------------------------------------------------------------
(* GET /api/domains/:id/keyword-rankings and storage.getKeywordRankings.
   Each action is one run of the server between two awaits; analyses and
   keywords are stored by other requests in between. *)

\* The id parameter of the path.
RankingParams == {<<"1">>, <<"2">>, <<"x","1">>}

Digits == <<"0", "1", "2", "3", "4", "5", "6", "7", "8", "9">>

\* parseInt of a parameter without sign or leading space: the number its
\* leading digits write, NaN when it has none.
RECURSIVE leadingDigits(_, _)
leadingDigits(s, acc) ==
    IF s = <<>> \/ ~(\E d \in 1..10 : Digits[d] = s[1]) THEN acc
    ELSE leadingDigits(Tail(s),
             10 * acc + (CHOOSE d \in 1..10 : Digits[d] = s[1]) - 1)

parseInt(s) ==
    IF s = <<>> \/ ~(\E d \in 1..10 : Digits[d] = s[1])
    THEN [isNaN |-> TRUE, value |-> 0]
    ELSE [isNaN |-> FALSE, value |-> leadingDigits(s, 0)]

\* The rows other requests store while the rankings are computed.
MaxStoredAnalyses == 2
MaxInserts == 1

\* (sentimentScore, performanceScore) of stored analyses: scores the analyze
\* route computes ("bad" answered slowly scores 0 and 0).
StoredScores ==
    { [sentimentScore |-> 0, performanceScore |-> 0],
      [sentimentScore |-> 75, performanceScore |-> 85],
      [sentimentScore |-> 100, performanceScore |-> 100] }
StoredRelevances == { <<>>, <<<<"M","a","r","k","e","t">>>>, <<<<"z","z">>>>, <<<<"z","z">>, <<"M","a","r","k","e","t">>>> }

\* The columns of an analysis that the rankings read (and its domain).
InsertAnalyses ==
    { [domainId |-> 1, sentimentScore |-> s.sentimentScore,
       performanceScore |-> s.performanceScore, keywordRelevance |-> kr] :
          s \in StoredScores, kr \in StoredRelevances }
    \cup { [domainId |-> 2, sentimentScore |-> 0, performanceScore |-> 10,
            keywordRelevance |-> <<<<"g","o","o","d">>>>] }

\* The analyses table with the serial ids of its rows.
withIds(rows) == [i \in 1..Len(rows) |-> [id |-> i] @@ rows[i]]

StoredAnalyses ==
    {withIds(rows) :
        rows \in UNION {[1..n -> InsertAnalyses] : n \in 0..MaxStoredAnalyses}}

\* select({sentimentScore, performanceScore, keywordRelevance})
\*     .from(analyses).where(eq(analyses.domainId, domainId))
\* The order of the rows is the table's: the sums do not depend on it.
selectMentions(domainId) ==
    SelectSeq(analysesTable, LAMBDA a : a.domainId = domainId)

\* Array.prototype.includes on an array of strings.
arrayIncludes(arr, v) == \E i \in 1..Len(arr) : arr[i] = v

\* if (x): a number is truthy unless it is 0.
truthy(x) == x # 0

\* The four counters after the loop over mentionResults.
RECURSIVE tally(_, _, _)
tally(mentionResults, value, acc) ==
    IF mentionResults = <<>> THEN acc
    ELSE LET result == Head(mentionResults)
         IN  tally(Tail(mentionResults), value,
                 IF arrayIncludes(result.keywordRelevance, value)
                 THEN [totalMentions |-> acc.totalMentions + 1,
                       totalSentiment |->
                           IF truthy(result.sentimentScore)
                           THEN acc.totalSentiment + result.sentimentScore
                           ELSE acc.totalSentiment,
                       mentionCount |->
                           IF truthy(result.sentimentScore)
                           THEN acc.mentionCount + 1
                           ELSE acc.mentionCount,
                       totalPerformance |->
                           IF truthy(result.performanceScore)
                           THEN acc.totalPerformance + result.performanceScore
                           ELSE acc.totalPerformance]
                 ELSE acc)

\* The entry pushed for one keyword.
ranking(value, mentionResults) ==
    LET t == tally(mentionResults, value,
                   [totalMentions |-> 0, totalSentiment |-> 0,
                    totalPerformance |-> 0, mentionCount |-> 0])
    IN  [keyword |-> value,
         totalMentions |-> t.totalMentions,
         avgSentimentScore |->
             IF t.mentionCount > 0
             THEN MathRound(t.totalSentiment, t.mentionCount) ELSE 0,
         avgPerformanceScore |->
             IF t.totalMentions > 0
             THEN MathRound(t.totalPerformance, t.totalMentions) ELSE 0]

\* The comparator of rankings.sort: negative when a goes before b.
compareRankings_mentionsOnly(a, b) == b.totalMentions - a.totalMentions

compareRankings(a, b) ==
    IF b.totalMentions # a.totalMentions
    THEN b.totalMentions - a.totalMentions
    ELSE b.avgPerformanceScore - a.avgPerformanceScore

\* Array.prototype.sort is stable: x goes after the entries it does not go
\* before.
RECURSIVE insertRanking(_, _)
insertRanking(sorted, x) ==
    IF sorted = <<>> THEN <<x>>
    ELSE IF compareRankings(x, Head(sorted)) < 0 THEN <<x>> \o sorted
    ELSE <<Head(sorted)>> \o insertRanking(Tail(sorted), x)

RECURSIVE sortRankings(_)
sortRankings(rankings) ==
    IF rankings = <<>> THEN <<>>
    ELSE insertRanking(sortRankings(SubSeq(rankings, 1, Len(rankings) - 1)),
                       rankings[Len(rankings)])

\* The request arrives: parseInt, the 400 answer, the call of
\* storage.getKeywordRankings up to its first await.
ReceiveRankings ==
    /\ rank.at = "idle"
    /\ \E param \in RankingParams :
           LET id == parseInt(param)
           IN  rank' = IF id.isNaN
                       THEN [rank EXCEPT !.at = "done", !.status = 400]
                       ELSE [rank EXCEPT !.at = "getKeywords",
                                         !.domainId = id.value]
    /\ UNCHANGED <<scoringVars, keywordsTable, analysesTable, req,
                   keywordRequests, domainsStore, dreq>>

\* return rankings.sort(...); res.json(rankings)
rankingsReply(r, rankings) ==
    [r EXCEPT !.at = "done", !.status = 200, !.body = sortRankings(rankings)]

\* getKeywordsByDomain resolves; the loop issues the query for the first
\* keyword, or there is none and the empty list is answered.
RankingsKeywords ==
    /\ rank.at = "getKeywords"
    /\ \E o \in Orderings(getKeywordsByDomain(rank.domainId)) :
           rank' = IF o = <<>>
                   THEN rankingsReply([rank EXCEPT !.domainKeywords = o], <<>>)
                   ELSE [rank EXCEPT !.domainKeywords = o, !.i = 1,
                                     !.at = "query"]
    /\ UNCHANGED <<scoringVars, keywordsTable, analysesTable, req,
                   keywordRequests, domainsStore, dreq>>

\* The query for keyword i resolves: the counters, rankings.push, and the
\* query for the next keyword or the sort and the answer.
RankingsQuery ==
    /\ rank.at = "query"
    /\ \E mentionResults \in {selectMentions(rank.domainId)} :
           LET entry == ranking(rank.domainKeywords[rank.i].value,
                                mentionResults)
               pushed == [rank EXCEPT
                            !.rankings = Append(@, entry),
                            !.mentionResults = Append(@, mentionResults)]
           IN  rank' = IF rank.i = Len(rank.domainKeywords)
                       THEN rankingsReply(pushed, pushed.rankings)
                       ELSE [pushed EXCEPT !.i = @ + 1]
    /\ UNCHANGED <<scoringVars, keywordsTable, analysesTable, req,
                   keywordRequests, domainsStore, dreq>>

\* A query is rejected: the route's catch answers 500.
RankingsQueryFails ==
    /\ rank.at \in {"getKeywords", "query"}
    /\ rank' = [rank EXCEPT !.at = "done", !.status = 500]
    /\ UNCHANGED <<scoringVars, keywordsTable, analysesTable, req,
                   keywordRequests, domainsStore, dreq>>

\* storage.createAnalysis of another request inserts a row (the rows stored
\* before the rankings request arrives are those of InitRankings).
InsertAnalysis ==
    /\ Len(analysesTable) < MaxStoredAnalyses + MaxInserts
    /\ rank.at \in {"getKeywords", "query"}
    /\ \E data \in InsertAnalyses :
           analysesTable' =
               Append(analysesTable, [id |-> Len(analysesTable) + 1] @@ data)
    /\ UNCHANGED <<scoringVars, keywordsTable, req, keywordRequests,
                   otherVars>>

NextRankings ==
    \/ ReceiveRankings
    \/ RankingsKeywords
    \/ RankingsQuery
    \/ RankingsQueryFails
    \/ InsertAnalysis
    \/ CreateKeyword
    \/ UpdateKeyword
    \/ DeleteKeyword

InitRankings ==
    /\ fn = "keywordRankings"
    /\ pc = "serve"
    /\ text = <<>>
    /\ keywords = <<>>
    /\ responseTime = 0
    /\ sentimentScore = -1
    /\ keywordRelevance = <<>>
    /\ performanceScore = -1
    /\ keywordsTable = [rows |-> InitialKeywords, serial |-> 3]
    /\ analysesTable \in StoredAnalyses
    /\ req = [r \in Reqs |-> IdleRequest]
    /\ keywordRequests = 0
    /\ InitOther

SpecRankings == InitRankings /\ [][NextRankings]_vars

----------------------------------------------------------------------------
(* POST /api/domains/analyze, posted by the form and by the Regenerate
   button.  Each action is one run of the server between two awaits. *)

\* req.body.domainName: missing, the name of a stored domain, a new name.
DomainNameInputs == {<<>>, <<"a",".","c","o","m">>, <<"n","e","w",".","i","o">>}

\* What analyzeDomainWithAI returns: the description and the keywords of the
\* engine's JSON; an item of keywords is a string or some other JSON value.
DomainAnalysisResults ==
    { [description |-> <<"f","r","e","s","h">>,
       keywords |-> << [isString |-> TRUE, value |-> <<"s","e","o">>],
                       [isString |-> TRUE, value |-> <<"a","d","s">>] >>],
      [description |-> <<"o","t","h","e","r">>,
       keywords |-> << [isString |-> TRUE, value |-> <<"s","e","o">>],
                       [isString |-> FALSE, value |-> <<"7">>] >>],
      [description |-> <<"U","n","a","b","l","e"," ","t","o"," ","a","n","a","l","y","z","e"," ","d","o","m","a","i","n">>, keywords |-> <<>>] }

\* select().from(domains).where(eq(domains.name, name)).limit(1); result[0]
getDomainByName(name) == {row \in domainsStore.rows : row.name = name}

\* select().from(domains).where(eq(domains.id, id)).limit(1); result[0]
getDomainRow(id) == {row \in domainsStore.rows : row.id = id}

\* Variant: name is not declared unique.
createDomain_notUnique(domainData) ==
    LET row == [id |-> domainsStore.serial, name |-> domainData.name,
                description |-> domainData.description]
    IN  [ok |-> TRUE, row |-> {row},
         store |-> [rows |-> domainsStore.rows \cup {row},
                    serial |-> domainsStore.serial + 1]]

\* insert(domains).values(insertDomain).returning(): name is unique, so the
\* insert of a stored name is rejected (the serial is consumed all the same).
createDomain(domainData) ==
    LET row == [id |-> domainsStore.serial, name |-> domainData.name,
                description |-> domainData.description]
    IN  IF \E stored \in domainsStore.rows : stored.name = domainData.name
        THEN [ok |-> FALSE, row |-> {},
              store |-> [domainsStore EXCEPT !.serial = @ + 1]]
        ELSE [ok |-> TRUE, row |-> {row},
              store |-> [rows |-> domainsStore.rows \cup {row},
                         serial |-> domainsStore.serial + 1]]

\* The catch of the route: res.status(500).json({error: error.message})
domainError(q) == [q EXCEPT !.at = "done", !.status = 500]

\* The loop over analysisResult.keywords up to its next await: the keyword
\* is parsed (a value that is no string is rejected) and createKeyword
\* awaited; after the last one getDomainWithKeywords is called.
createKeywords(q) ==
    IF q.left = <<>> THEN [q EXCEPT !.at = "getDomain"]
    ELSE IF ~q.left[1].isString THEN domainError(q)
    ELSE [q EXCEPT !.at = "createKeyword"]

\* A request arrives (the requests are numbered in the order of arrival).
ReceiveDomainAnalyze(d) ==
    /\ dreq[d].at = "idle"
    /\ \A o \in DReqs : o < d => dreq[o].at # "idle"
    /\ \E domainName \in DomainNameInputs :
           dreq' = [dreq EXCEPT
                      ![d] = IF domainName = <<>>
                             THEN [@ EXCEPT !.at = "done", !.status = 400]
                             ELSE [@ EXCEPT !.at = "getDomainByName",
                                            !.domainName = domainName]]
    /\ UNCHANGED <<scoringVars, keywordsTable, analysesTable, req,
                   keywordRequests, domainsStore, rank>>

\* getDomainByName resolves: a stored domain goes to getDomainWithKeywords,
\* an unknown name to analyzeDomainWithAI.
GetDomainByName(d) ==
    /\ dreq[d].at = "getDomainByName"
    /\ \E domain \in {getDomainByName(dreq[d].domainName)} :
           dreq' = [dreq EXCEPT
                      ![d] = IF domain # {}
                             THEN [@ EXCEPT !.domain = domain,
                                            !.found = domain,
                                            !.at = "getDomain"]
                             ELSE [@ EXCEPT !.calledAI = TRUE,
                                            !.at = "analyzeDomainWithAI"]]
    /\ UNCHANGED <<scoringVars, keywordsTable, analysesTable, req,
                   keywordRequests, domainsStore, rank>>

\* analyzeDomainWithAI returns: the domain data are parsed and createDomain
\* is awaited.
AnalyzeDomainReturns(d) ==
    /\ dreq[d].at = "analyzeDomainWithAI"
    /\ \E analysisResult \in DomainAnalysisResults :
           dreq' = [dreq EXCEPT ![d].analysisResult = {analysisResult},
                                ![d].at = "createDomain"]
    /\ UNCHANGED <<scoringVars, keywordsTable, analysesTable, req,
                   keywordRequests, domainsStore, rank>>

\* analyzeDomainWithAI throws (the engine call or JSON.parse failed).
AnalyzeDomainThrows(d) ==
    /\ dreq[d].at = "analyzeDomainWithAI"
    /\ dreq' = [dreq EXCEPT ![d] = domainError(@)]
    /\ UNCHANGED <<scoringVars, keywordsTable, analysesTable, req,
                   keywordRequests, domainsStore, rank>>

\* createDomain resolves or is rejected; then the loop over the keywords.
CreateDomain(d) ==
    /\ dreq[d].at = "createDomain"
    /\ \E analysisResult \in dreq[d].analysisResult :
        \E res \in {createDomain([name |-> dreq[d].domainName,
                                  description |-> analysisResult.description])} :
           /\ domainsStore' = res.store
           /\ dreq' = [dreq EXCEPT
                         ![d] = IF res.ok
                                THEN createKeywords(
                                         [@ EXCEPT
                                            !.domain = res.row,
                                            !.createdDomain = res.row,
                                            !.left = analysisResult.keywords])
                                ELSE domainError(@)]
    /\ UNCHANGED <<scoringVars, keywordsTable, analysesTable, req,
                   keywordRequests, rank>>

\* createKeyword resolves: the row is stored, the loop goes on.
CreateDomainKeyword(d) ==
    /\ dreq[d].at = "createKeyword"
    /\ \E domain \in dreq[d].domain :
           /\ keywordsTable' =
                  [rows |-> keywordsTable.rows \cup
                                {[id |-> keywordsTable.serial,
                                  domainId |-> domain.id,
                                  value |-> dreq[d].left[1].value]},
                   serial |-> keywordsTable.serial + 1]
           /\ dreq' = [dreq EXCEPT
                         ![d] = createKeywords(
                                    [@ EXCEPT
                                       !.created = @ \cup {keywordsTable.serial},
                                       !.left = Tail(@)])]
    /\ UNCHANGED <<scoringVars, analysesTable, req, keywordRequests,
                   domainsStore, rank>>

\* getDomainWithKeywords, first await: getDomain(id).
GetDomainWithKeywords(d) ==
    /\ dreq[d].at = "getDomain"
    /\ \E domain \in dreq[d].domain :
           dreq' = [dreq EXCEPT
                      ![d] = IF getDomainRow(domain.id) = {}
                             THEN [@ EXCEPT !.at = "done", !.status = 200]
                             ELSE [@ EXCEPT !.body = getDomainRow(domain.id),
                                            !.at = "getKeywordsByDomain"]]
    /\ UNCHANGED <<scoringVars, keywordsTable, analysesTable, req,
                   keywordRequests, domainsStore, rank>>

\* getDomainWithKeywords, second await; res.json(domainWithKeywords).
RespondDomain(d) ==
    /\ dreq[d].at = "getKeywordsByDomain"
    /\ \E row \in dreq[d].body :
        \E o \in Orderings(getKeywordsByDomain(row.id)) :
           dreq' = [dreq EXCEPT
                      ![d].body = {[id |-> row.id, name |-> row.name,
                                    description |-> row.description,
                                    keywords |-> o]},
                      ![d].at = "done",
                      ![d].status = 200]
    /\ UNCHANGED <<scoringVars, keywordsTable, analysesTable, req,
                   keywordRequests, domainsStore, rank>>

NextDomains ==
    \E d \in DReqs :
        \/ ReceiveDomainAnalyze(d)
        \/ GetDomainByName(d)
        \/ AnalyzeDomainReturns(d)
        \/ AnalyzeDomainThrows(d)
        \/ CreateDomain(d)
        \/ CreateDomainKeyword(d)
        \/ GetDomainWithKeywords(d)
        \/ RespondDomain(d)

InitDomains ==
    /\ fn = "domainAnalyze"
    /\ pc = "serve"
    /\ text = <<>>
    /\ keywords = <<>>
    /\ responseTime = 0
    /\ sentimentScore = -1
    /\ keywordRelevance = <<>>
    /\ performanceScore = -1
    /\ InitServer

SpecDomains == InitDomains /\ [][NextDomains]_vars

---------------------------------------------------------------------------
(* Properties *)

SentimentReturned == pc = "return" /\ fn = "calculateSentimentScore"
KeywordsReturned == pc = "return" /\ fn = "analyzeKeywordRelevance"
PerformanceReturned == pc = "return" /\ fn = "calculatePerformanceScore"

IsWhiteSpaceOnly(s) == Len(s) > 0 /\ \A i \in 1..Len(s) : s[i] \in WhiteSpace

\* C1: for every text, the empty and the whitespace-only ones included,
\* calculateSentimentScore returns an integer between 0 and 100.
C1_SentimentInRange ==
    SentimentReturned => sentimentScore \in 0..100

C1_Witness ==
    /\ SentimentReturned
    /\ IsWhiteSpaceOnly(text)
    /\ sentimentScore \in 0..100

\* C2: for every text, every sentiment score in 0..100 and every response
\* time, zero and negative ones included, calculatePerformanceScore returns
\* an integer between 0 and 100.
C2_PerformanceInRange ==
    PerformanceReturned => performanceScore \in 0..100

\* The bonuses carry the sum past 100 and the result is still 100.
C2_Witness ==
    /\ PerformanceReturned
    /\ responseTime < 0
    /\ sentimentScore = 100
    /\ Len(text) >= 200
    /\ performanceScore = 100

\* The elements of s at the positions idx, in the order of s.
AtPositions(s, idx) ==
    LET F[i \in 0..Len(s)] ==
            IF i = 0 THEN <<>>
            ELSE IF i \in idx THEN Append(F[i - 1], s[i]) ELSE F[i - 1]
    IN  F[Len(s)]

\* C3: the list returned by analyzeKeywordRelevance is a subsequence of the
\* supplied keywords: its elements are elements of the input, spelled and
\* cased as in the input, in the input's order.
C3_Subsequence ==
    KeywordsReturned =>
        \E idx \in SUBSET (1..Len(keywords)) :
            keywordRelevance = AtPositions(keywords, idx)

\* Two different keywords are returned and a third one is left out; one of
\* the returned keywords has an upper-case letter.
C3_Witness ==
    /\ KeywordsReturned
    /\ Len(keywords) = 3
    /\ Len(keywordRelevance) = 2
    /\ keywordRelevance[1] # keywordRelevance[2]
    /\ \E i \in 1..2 : toLowerCase(keywordRelevance[i]) # keywordRelevance[i]

\* How often x occurs in the sequence s.
Count(s, x) == Cardinality({i \in 1..Len(s) : s[i] = x})

\* C4 as claimed: no string occurs more than once in the returned list.
C4_NoDuplicates ==
    KeywordsReturned =>
        \A i, j \in 1..Len(keywordRelevance) :
            i # j => keywordRelevance[i] # keywordRelevance[j]

\* C4, amended: no string occurs in the returned list more often than in
\* the supplied keywords, so the list has no duplicates whenever the
\* supplied keywords have none.
C4_NoNewDuplicates ==
    KeywordsReturned =>
        \A i \in 1..Len(keywordRelevance) :
            Count(keywordRelevance, keywordRelevance[i])
                <= Count(keywords, keywordRelevance[i])

\* Keywords without duplicates that differ only in case are both returned.
C4_Witness ==
    /\ KeywordsReturned
    /\ \A i, j \in 1..Len(keywords) : i # j => keywords[i] # keywords[j]
    /\ Len(keywordRelevance) = 2
    /\ toLowerCase(keywordRelevance[1]) = toLowerCase(keywordRelevance[2])

\* C5 as claimed: for the empty text the keyword relevance result is the
\* empty list, whatever the keywords.
C5_EmptyTextNoKeywords ==
    (KeywordsReturned /\ text = <<>>) => keywordRelevance = <<>>

\* The quality words, written out independently of the scoring code.
QualityIndicators ==
    {<<"s","t","r","a","t","e","g","y">>, <<"a","n","a","l","y","s","i","s">>, <<"r","e","c","o","m","m","e","n","d","a","t","i","o","n">>, <<"i","n","s","i","g","h","t">>, <<"o","p","p","o","r","t","u","n","i","t","y">>,
     <<"p","o","t","e","n","t","i","a","l">>, <<"m","a","r","k","e","t">>, <<"c","o","m","p","e","t","i","t","i","v","e">>, <<"g","r","o","w","t","h">>}

SumOver(S, f(_)) ==
    LET RECURSIVE Sum(_)
        Sum(T) == IF T = {} THEN 0
                  ELSE LET x == CHOOSE y \in T : TRUE
                       IN  f(x) + Sum(T \ {x})
    IN  Sum(S)

\* The score without the content-quality bonus.
BaseScore ==
    sentimentScore
    + (IF Len(text) \div 100 < 20 THEN Len(text) \div 100 ELSE 20)
    + (IF responseTime < 3000 THEN 10 ELSE IF responseTime < 5000 THEN 5 ELSE 0)

Clamped(x) == IF x < 0 THEN 0 ELSE IF x > 100 THEN 100 ELSE x

AnalysisExample ==
    /\ text = <<"a","n","a","l","y","s","i","s"," ","a","n","a","l","y","s","i","s"," ","a","n","a","l","y","s","i","s">>
    /\ sentimentScore = 75
    /\ responseTime = 2000

\* C6 as claimed: every occurrence of a quality word in the lowercased text
\* adds 2, repeated occurrences of one word included; the text "analysis
\* analysis analysis" with sentiment score 75 and 2000 ms yields 91.
C6_BonusPerOccurrence ==
    PerformanceReturned =>
        /\ performanceScore =
               Clamped(BaseScore
                       + 2 * (LET textLower == toLowerCase(text)
                              IN  SumOver(QualityIndicators,
                                      LAMBDA w : occurrences(textLower, w))))
        /\ AnalysisExample => performanceScore = 91

\* C6, amended: every quality word that occurs in the lowercased text adds
\* 2 once, however often it occurs; the text "analysis analysis analysis"
\* with sentiment score 75 and 2000 ms yields 75 + 0 + 10 + 2 = 87.
C6_BonusPerDistinctWord ==
    PerformanceReturned =>
        /\ performanceScore =
               Clamped(BaseScore
                       + 2 * (LET textLower == toLowerCase(text)
                              IN  Cardinality({w \in QualityIndicators :
                                      occurrences(textLower, w) >= 1})))
        /\ AnalysisExample => performanceScore = 87

C6_Witness ==
    /\ PerformanceReturned
    /\ AnalysisExample
    /\ occurrences(toLowerCase(text), <<"a","n","a","l","y","s","i","s">>) = 3
    /\ performanceScore = 87

\* The markers, written out independently of the scoring code.
PositiveMarkers ==
    {<<"e","x","c","e","l","l","e","n","t">>, <<"g","r","e","a","t">>, <<"g","o","o","d">>, <<"p","o","s","i","t","i","v","e">>, <<"s","t","r","o","n","g">>, <<"p","o","t","e","n","t","i","a","l">>,
     <<"o","p","p","o","r","t","u","n","i","t","y">>, <<"s","u","c","c","e","s","s">>, <<"e","f","f","e","c","t","i","v","e">>, <<"v","a","l","u","a","b","l","e">>}
NegativeMarkers ==
    {<<"p","o","o","r">>, <<"b","a","d">>, <<"n","e","g","a","t","i","v","e">>, <<"w","e","a","k">>, <<"p","r","o","b","l","e","m">>, <<"i","s","s","u","e">>, <<"c","h","a","l","l","e","n","g","e">>,
     <<"d","i","f","f","i","c","u","l","t","y">>, <<"r","i","s","k">>, <<"c","o","n","c","e","r","n">>}

\* The whitespace-delimited tokens of the lowercased text.
Tokens == split(toLowerCase(text))

\* The number of tokens that contain a marker of the set M.
TokensWith(M) ==
    LET toks == Tokens
    IN  Cardinality({i \in 1..Len(toks) :
                        \E m \in M : occurrences(toks[i], m) >= 1})

\* C7: calculateSentimentScore returns 75 whenever no token of the
\* lowercased text contains a positive or a negative marker, as for the
\* empty text.
C7_NeutralDefault ==
    (SentimentReturned /\ TokensWith(PositiveMarkers \cup NegativeMarkers) = 0)
        => sentimentScore = 75

C7_Witness ==
    /\ SentimentReturned
    /\ text = <<>>
    /\ sentimentScore = 75

\* C8: with P tokens containing a positive marker and N tokens containing a
\* negative one, P + N > 0, calculateSentimentScore returns 100 * P / (P + N)
\* rounded to the nearest integer.
C8_SentimentFormula ==
    LET P == TokensWith(PositiveMarkers)
        N == TokensWith(NegativeMarkers)
    IN  (SentimentReturned /\ P + N > 0) =>
            /\ 2 * (P + N) * sentimentScore - 200 * P <= P + N
            /\ 200 * P - 2 * (P + N) * sentimentScore <= P + N

\* Two tokens, one of them holding a positive and a negative marker:
\* P = 2, N = 1 and the score is 67.
C8_Witness ==
    /\ SentimentReturned
    /\ Len(Tokens) = 2
    /\ TokensWith(PositiveMarkers) = 2
    /\ TokensWith(NegativeMarkers) = 1
    /\ sentimentScore = 67

\* C9: a text in which some token contains a positive marker and no token
\* contains a negative one has sentiment score 100.
C9_OnlyPositive ==
    (/\ SentimentReturned
     /\ TokensWith(PositiveMarkers) > 0
     /\ TokensWith(NegativeMarkers) = 0) => sentimentScore = 100

C9_Witness ==
    /\ SentimentReturned
    /\ text = <<"e","x","c","e","l","l","e","n","t"," ","g","r","e","a","t"," ","s","t","r","o","n","g">>
    /\ sentimentScore = 100

\* C10: a text in which some token contains a negative marker and no token
\* contains a positive one has sentiment score 0.
C10_OnlyNegative ==
    (/\ SentimentReturned
     /\ TokensWith(NegativeMarkers) > 0
     /\ TokensWith(PositiveMarkers) = 0) => sentimentScore = 0

C10_Witness ==
    /\ SentimentReturned
    /\ text = <<"p","o","o","r"," ","b","a","d"," ","w","e","a","k">>
    /\ sentimentScore = 0

\* The keyword k without its whitespace.
StripWhiteSpace(k) == SelectSeq(k, LAMBDA c : c \notin {" ", "\t", "\n", "\r", "\f"})

\* The matching rule for the lowercased text t, its tokens toks and the
\* lowercased keyword k.
RuleA(t, k) == occurrences(t, k) >= 1
RuleB(t, k) == occurrences(t, StripWhiteSpace(k)) >= 1
RuleC(toks, k) ==
    \E i \in 1..Len(toks) :
        occurrences(toks[i], k) >= 1 \/ occurrences(k, toks[i]) >= 1

\* C11: a keyword of the input is in the result exactly when the lowercased
\* text contains the lowercased keyword, or contains it with its whitespace
\* removed, or some token of the text contains it or is contained in it.
C11_MatchingRule ==
    KeywordsReturned =>
        LET t == toLowerCase(text)
            toks == split(t)
        IN  \A i \in 1..Len(keywords) :
                (\E j \in 1..Len(keywordRelevance) :
                     keywordRelevance[j] = keywords[i])
                <=> LET k == toLowerCase(keywords[i])
                    IN  RuleA(t, k) \/ RuleB(t, k) \/ RuleC(toks, k)

\* "market share" is relevant for "marketshare is increasing" by the second
\* rule alone.
C11_Witness ==
    /\ KeywordsReturned
    /\ text = <<"m","a","r","k","e","t","s","h","a","r","e"," ","i","s"," ","i","n","c","r","e","a","s","i","n","g">>
    /\ keywords = <<<<"m","a","r","k","e","t"," ","s","h","a","r","e">>>>
    /\ keywordRelevance = keywords
    /\ ~RuleA(text, keywords[1])
    /\ ~RuleC(split(text), keywords[1])

NoQualityWord ==
    LET textLower == toLowerCase(text)
    IN  \A w \in QualityIndicators : occurrences(textLower, w) = 0

\* C12: the length bonus is floor(len(text) / 100), at most 20: 0 below 100
\* characters, 20 from 2000 characters on.  (Seen where nothing else is
\* added: no quality word, response time of 5000 ms or more, no clamping.)
C12_LengthBonus ==
    (/\ PerformanceReturned
     /\ NoQualityWord
     /\ responseTime >= 5000
     /\ sentimentScore <= 80) =>
        /\ performanceScore - sentimentScore =
               (IF Len(text) >= 2000 THEN 20 ELSE Len(text) \div 100)
        /\ Len(text) < 100 => performanceScore = sentimentScore

C12_Witness ==
    /\ PerformanceReturned
    /\ NoQualityWord
    /\ responseTime = 5000
    /\ Len(text) = 2500
    /\ sentimentScore = 75
    /\ performanceScore = 95

\* C13: the speed bonus is 10 below 3000 ms, 5 from 3000 ms to below
\* 5000 ms and 0 from 5000 ms on.  (Seen where nothing else is added: a
\* text under 100 characters without quality word, no clamping.)
C13_SpeedBonus ==
    (/\ PerformanceReturned
     /\ NoQualityWord
     /\ Len(text) < 100
     /\ sentimentScore <= 90) =>
        performanceScore - sentimentScore =
            (IF responseTime < 3000 THEN 10
             ELSE IF responseTime < 5000 THEN 5 ELSE 0)

C13_Witness ==
    /\ PerformanceReturned
    /\ NoQualityWord
    /\ Len(text) < 100
    /\ responseTime = 3000
    /\ performanceScore = sentimentScore + 5

\* C14: for a text under 100 characters without quality word and a
\* response time of 5000 ms or more, the performance score is the
\* sentiment score, for every sentiment score in 0..100.
C14_StartsFromSentiment ==
    (/\ PerformanceReturned
     /\ NoQualityWord
     /\ Len(text) < 100
     /\ responseTime >= 5000) => performanceScore = sentimentScore

C14_Witness ==
    /\ PerformanceReturned
    /\ NoQualityWord
    /\ Len(text) < 100
    /\ responseTime = 60000
    /\ sentimentScore = 100
    /\ performanceScore = 100

\* C16: the scoring functions are total: every call, with the empty text,
\* the empty keyword list, empty keywords and zero or negative response
\* times included, returns a result and none raises an error: a call ends
\* in "return" with a number or a list of keywords, never in "throw".
C16_Total ==
    /\ pc \in {"call", "return"}
    /\ fn \in {"calculateSentimentScore", "analyzeKeywordRelevance",
               "calculatePerformanceScore"}
    /\ SentimentReturned => sentimentScore \in Int
    /\ PerformanceReturned => performanceScore \in Int
    /\ KeywordsReturned =>
           /\ keywordRelevance \in Seq({keywords[i] : i \in 1..Len(keywords)})
           /\ Len(keywordRelevance) <= Len(keywords)

\* The empty text with the empty keyword among the keywords.
C16_Witness ==
    /\ KeywordsReturned
    /\ text = <<>>
    /\ \E i \in 1..Len(keywords) : keywords[i] = <<>>
    /\ Len(keywordRelevance) = Len(keywords)


---------------------------------------------------------------------------
(* Properties of the analyze route *)

\* Every scoring made so far: <<r, i>> is the i-th scoring of request r.
AllCalls == UNION {{<<r, i>> : i \in 1..Len(req[r].calls)} : r \in Reqs}

CallAt(a) == req[a[1]].calls[a[2]]

SameArguments(x, y) ==
    /\ x.text = y.text
    /\ x.keywords = y.keywords
    /\ x.elapsedMs = y.elapsedMs

SameScores(x, y) ==
    /\ x.sentimentScore = y.sentimentScore
    /\ x.keywordRelevance = y.keywordRelevance
    /\ x.performanceScore = y.performanceScore

Scores(r) == req[r].analysisData = {} /\ req'[r].analysisData # {}

Stores(r) ==
    /\ req[r].analysisData # {}
    /\ req'[r].analysisData = {}
    /\ req'[r].storeFailed = req[r].storeFailed

\* The text the engine gave request r, and the time its call took, as the
\* scoring step finds them.
OwnText(r) ==
    IF req[r].at = "openaiReply"
    THEN responseContent((CHOOSE reply \in req[r].reply : TRUE).content)
    ELSE simulatedResponse(req[r].keywords)

OwnTime(r) ==
    IF req[r].at = "openaiReply"
    THEN (CHOOSE reply \in req[r].reply : TRUE).responseTime
    ELSE req'[r].replies[Len(req'[r].replies)].responseTime

IsolatedScoring(t, kws, elapsedMs, d) ==
    \E s \in {calculateSentimentScore(t)} :
        /\ d.sentimentScore = s
        /\ d.keywordRelevance = analyzeKeywordRelevance(t, kws)
        /\ d.performanceScore = calculatePerformanceScore(t, s, elapsedMs)

LastRow == analysesTable'[Len(analysesTable')]

\* C17: with several analyze requests in flight, interleaving at their
\* awaits, the scores computed and then stored for a response are those of
\* one scoring of the request's own text, own keywords and own response
\* time, alone.
C17_InterferenceFree ==
    [][\A r \in Reqs :
          /\ Scores(r) =>
                 \A d \in req'[r].analysisData :
                     /\ d.response = OwnText(r)
                     /\ d.responseTime = OwnTime(r)
                     /\ IsolatedScoring(OwnText(r), req[r].keywords,
                                        OwnTime(r), d)
          /\ Stores(r) =>
                 \A d \in req[r].analysisData :
                     /\ Len(analysesTable') = Len(analysesTable) + 1
                     /\ LastRow.response = d.response
                     /\ LastRow.responseTime = d.responseTime
                     /\ SameScores(LastRow, d)]_vars

\* Both requests are in flight with a scored response each, of different
\* texts, keywords and response times.
C17_Witness ==
    /\ \A r \in Reqs : req[r].at \notin {"idle", "done"}
    /\ \E a \in AllCalls : \E b \in AllCalls :
        /\ a[1] # b[1]
        /\ CallAt(a).text # CallAt(b).text
        /\ CallAt(a).keywords # CallAt(b).keywords
        /\ CallAt(a).elapsedMs # CallAt(b).elapsedMs
        /\ CallAt(a).keywordRelevance # CallAt(b).keywordRelevance

FailedReplyPending(r) ==
    req[r].at = "openaiReply" /\ \E reply \in req[r].reply : ~reply.ok

\* C18: a response is scored only in the step that takes a successful
\* engine answer, and it is that answer's text that is scored; when the
\* engine call failed, the step that handles the failure scores nothing and
\* stores nothing, and no scoring for that engine call is ever made.
C18_ScoredAfterSuccess ==
    [][\A r \in Reqs :
          LET n == Len(req[r].calls)
          IN  /\ Len(req'[r].calls) \in {n, n + 1}
              /\ SubSeq(req'[r].calls, 1, n) = req[r].calls
              /\ Len(req'[r].calls) = n + 1 =>
                     LET c == req'[r].calls[n + 1]
                     IN  \/ /\ req[r].at = "openaiReply"
                            /\ c.engine = "openai"
                            /\ \E reply \in req[r].reply :
                                   /\ reply.ok
                                   /\ c.text = responseContent(reply.content)
                                   /\ c.elapsedMs = reply.responseTime
                            /\ \E j \in 1..Len(req[r].replies) :
                                   /\ req[r].replies[j].engine = "openai"
                                   /\ req[r].replies[j].ok
                         \/ /\ req[r].at = "geminiCall"
                            /\ c.engine = "gemini"
                            /\ c.text = simulatedResponse(req[r].keywords)
                            /\ req'[r].replies[Len(req'[r].replies)].ok
              /\ FailedReplyPending(r) =>
                     /\ req'[r].calls = req[r].calls
                     /\ req'[r].analysisData = {}
                     /\ req'[r].analyses = req[r].analyses
              /\ \A j \in 1..Len(req[r].replies) :
                     (~req[r].replies[j].ok /\ ~FailedReplyPending(r)) =>
                         /\ \A i \in 1..n :
                                req[r].calls[i].engine # req[r].replies[j].engine
                         /\ \A i \in 1..Len(req[r].analyses) :
                                analysesTable[req[r].analyses[i]].engine
                                    # req[r].replies[j].engine]_vars

\* One request went on after a failed openai call without scoring, another
\* scored the text of a successful one.
C18_Witness ==
    /\ \E r \in Reqs :
        /\ Len(req[r].replies) >= 1
        /\ ~req[r].replies[1].ok
        /\ req[r].at \in {"geminiCreate", "done"}
        /\ \A i \in 1..Len(req[r].calls) : req[r].calls[i].engine = "gemini"
    /\ \E a \in AllCalls :
        /\ CallAt(a).engine = "openai"
        /\ CallAt(a).text = <<"g","o","o","d"," ","M","a","r","k","e","t">>

\* C19: every analysis record the route creates has sentimentScore,
\* keywordRelevance and performanceScore equal to the scoring of the
\* record's own response with the record's own responseTime (and the
\* request's keywords), its engine is the engine of the block that made it
\* and one the request asked for, and its promptId and domainId are those of
\* the request's prompt.
C19_RecordPersisted ==
    [][\A r \in Reqs :
          Stores(r) =>
              /\ Len(analysesTable') = Len(analysesTable) + 1
              /\ SubSeq(analysesTable', 1, Len(analysesTable)) = analysesTable
              /\ req'[r].analyses = Append(req[r].analyses, LastRow.id)
              /\ LastRow.id = Len(analysesTable')
              /\ IsolatedScoring(LastRow.response, req[r].keywords,
                                 LastRow.responseTime, LastRow)
              /\ LastRow.engine =
                     (IF req[r].at = "openaiCreate" THEN "openai" ELSE "gemini")
              /\ LastRow.engine \in req[r].engines
              /\ LastRow.promptId = req[r].promptId
              /\ LastRow.domainId = promptsTable[req[r].promptId]]_vars

\* Records of both engines and of both prompts are stored, with different
\* scores.
C19_Witness ==
    /\ Len(analysesTable) >= 3
    /\ \E i \in 1..Len(analysesTable) : \E j \in 1..Len(analysesTable) :
        /\ analysesTable[i].engine = "openai"
        /\ analysesTable[j].engine = "gemini"
        /\ analysesTable[i].promptId # analysesTable[j].promptId
        /\ analysesTable[i].domainId # analysesTable[j].domainId
        /\ analysesTable[i].sentimentScore # analysesTable[i].performanceScore
        /\ analysesTable[i].keywordRelevance # <<>>
        /\ analysesTable[j].keywordRelevance # <<>>

\* kws lists the values of the keyword rows, each row once, in some order.
ListsValuesOf(kws, rows) ==
    /\ Len(kws) = Cardinality(rows)
    /\ \E f \in [1..Len(kws) -> rows] :
        /\ \A k \in rows : \E i \in 1..Len(kws) : f[i] = k
        /\ \A i \in 1..Len(kws) : kws[i] = f[i].value

ValuesOf(rows) == {k.value : k \in rows}

Elements(s) == {s[i] : i \in 1..Len(s)}

\* C20 as claimed: the keywords passed to the scoring of a response are the
\* values stored for the domain at the moment the engine call completed, so
\* that no keyword deleted or renamed before is in keywordRelevance.
C20_KeywordsAtCompletion ==
    \A r \in Reqs : \A i \in 1..Len(req[r].calls) :
        \A j \in 1..Len(req[r].replies) :
            req[r].replies[j].engine = req[r].calls[i].engine =>
                /\ ListsValuesOf(req[r].calls[i].keywords,
                                 req[r].replies[j].stored)
                /\ Elements(req[r].calls[i].keywordRelevance)
                       \subseteq ValuesOf(req[r].replies[j].stored)

\* C20: the keywords passed to the scoring of a response, of either engine,
\* are the values of the domain's keyword rows as the request read them
\* before its first engine call; keywordRelevance holds only such values.
\* Keyword requests handled after that read do not change them.
C20_KeywordsAsRead ==
    \A r \in Reqs : \A i \in 1..Len(req[r].calls) :
        /\ ListsValuesOf(req[r].calls[i].keywords, req[r].readRows)
        /\ Elements(req[r].calls[i].keywordRelevance)
               \subseteq ValuesOf(req[r].readRows)

\* A keyword was deleted or renamed between the request's read and the
\* completion of the engine call, and is in the scored keywordRelevance.
C20_Witness ==
    \E r \in Reqs : \E i \in 1..Len(req[r].calls) :
        \E j \in 1..Len(req[r].replies) :
            /\ req[r].replies[j].engine = req[r].calls[i].engine
            /\ req[r].replies[j].stored # req[r].readRows
            /\ ListsValuesOf(req[r].calls[i].keywords, req[r].readRows)
            /\ \E v \in Elements(req[r].calls[i].keywordRelevance) :
                   v \notin ValuesOf(req[r].replies[j].stored)


---------------------------------------------------------------------------
(* Relations between scorings *)

\* The other-case form of a letter: of A-Z and a-z only, and of every
\* letter of the texts (the upper case of the dotless i is I).
OtherCaseTable ==
    [c \in Elements(UpperCase) \cup Elements(LowerCase) |->
        LET i == CHOOSE j \in 1..Len(UpperCase) :
                     UpperCase[j] = c \/ LowerCase[j] = c
        IN  IF UpperCase[i] = c THEN LowerCase[i] ELSE UpperCase[i]]

OtherCaseASCII(c) == IF c \in DOMAIN OtherCaseTable THEN OtherCaseTable[c] ELSE c

OtherCase(c) == IF c = DotlessI THEN "I" ELSE OtherCaseASCII(c)

\* Some ways to replace letters of s by their other-case form oc: all of
\* them, those at odd places, those at even places.
SwapAll(s, oc(_)) == [i \in 1..Len(s) |-> oc(s[i])]
SwapOdd(s, oc(_)) == [i \in 1..Len(s) |-> IF i % 2 = 1 THEN oc(s[i]) ELSE s[i]]
SwapEven(s, oc(_)) == [i \in 1..Len(s) |-> IF i % 2 = 0 THEN oc(s[i]) ELSE s[i]]

CaseVariants(s, oc(_)) == {SwapAll(s, oc), SwapOdd(s, oc)}

\* The places of kws whose keyword is in the result res.
PickedPlaces(kws, res) == {i \in 1..Len(kws) : kws[i] \in Elements(res)}

CaseInsensitive(oc(_)) ==
    /\ SentimentReturned =>
           \A t2 \in CaseVariants(text, oc) :
               calculateSentimentScore(t2) = sentimentScore
    /\ PerformanceReturned =>
           calculatePerformanceScore(SwapOdd(text, oc), sentimentScore,
                                     responseTime) = performanceScore
    /\ KeywordsReturned =>
           LET kwsOdd == [i \in 1..Len(keywords) |-> SwapOdd(keywords[i], oc)]
           IN  PickedPlaces(kwsOdd,
                   analyzeKeywordRelevance(SwapEven(text, oc), kwsOdd))
                   = PickedPlaces(keywords, keywordRelevance)

\* C21 as claimed: replacing any letters of the text or of a keyword by
\* their other-case form changes no score and no reported place.
C21_CaseInsensitive == CaseInsensitive(OtherCase)

\* C21: replacing letters A-Z and a-z of the text by their other-case form
\* (all of them, or every second one) changes neither sentimentScore nor
\* performanceScore, and doing so at alternate places of the text and of
\* the keywords does not change which places of the keyword sequence are
\* reported relevant.
C21_CaseInsensitiveASCII == CaseInsensitive(OtherCaseASCII)

\* A text with letters of both cases and a marker word was scored.
C21_Witness ==
    /\ SentimentReturned
    /\ text = <<"g","o","o","d","B","A","D"," ","g","o","o","d">>
    /\ sentimentScore = 67
    /\ calculateSentimentScore(SwapAll(text, OtherCaseASCII)) = 67
    /\ SwapAll(text, OtherCaseASCII) = <<"G","O","O","D","b","a","d"," ","G","O","O","D">>


\* C25: for every text, every sentiment score in 0..100 and every response
\* time, the performance score is at least the sentiment score it starts
\* from; no bonus is negative.
C25_NotBelowSentiment ==
    PerformanceReturned =>
        /\ lengthBonus(text) >= 0
        /\ speedBonus(responseTime) >= 0
        /\ qualityScore(text) >= 0
        /\ sentimentScore \in 0..100 => performanceScore >= sentimentScore

\* A slow response to a short text without quality word: no bonus at all.
C25_Witness ==
    /\ PerformanceReturned
    /\ responseTime = 60000
    /\ text = <<"B","A","D">>
    /\ sentimentScore = 40
    /\ performanceScore = 40

ReportedAlone(k) == analyzeKeywordRelevance(text, <<k>>) = <<k>>

C27_Independent ==
    KeywordsReturned => keywordRelevance = SelectSeq(keywords, ReportedAlone)

\* A keyword sequence with a repeated reported keyword and an unreported one
\* between.
C27_Witness ==
    /\ KeywordsReturned
    /\ text = <<"M","a","r","k","e","t">>
    /\ keywords = <<<<"M","a","r","k","e","t">>, <<"z","z">>, <<"M","a","r","k","e","t">>>>
    /\ keywordRelevance = <<<<"M","a","r","k","e","t">>, <<"M","a","r","k","e","t">>>>


----------------------------------------------------------------------------
(* Keyword rankings *)

RankingsAnswered == rank.at = "done" /\ rank.status = 200

\* The rows among those read that mention the value.
Mentioning(rows, value) ==
    SelectSeq(rows, LAMBDA a : value \in Elements(a.keywordRelevance))

RECURSIVE SumOf(_, _)
SumOf(rows, column) ==
    IF rows = <<>> THEN 0 ELSE rows[1][column] + SumOf(Tail(rows), column)

\* The mean of a column over the rows, rounded to the nearest integer (a tie
\* to the larger one); 0 when there is no row.
RoundedMean(rows, column) ==
    IF rows = <<>> THEN 0
    ELSE (2 * SumOf(rows, column) + Len(rows)) \div (2 * Len(rows))

\* C28 as claimed: the entry computed for a keyword has, as avgSentimentScore
\* and avgPerformanceScore, the rounded means of sentimentScore and of
\* performanceScore over all the analyses read for the domain whose
\* keywordRelevance contains the keyword's value, a score of 0 counting like
\* any other.
C28_MeansOverMentions ==
    \A i \in 1..Len(rank.rankings) :
        LET rows == Mentioning(rank.mentionResults[i],
                               rank.domainKeywords[i].value)
        IN  /\ rank.rankings[i].avgSentimentScore
                   = RoundedMean(rows, "sentimentScore")
            /\ rank.rankings[i].avgPerformanceScore
                   = RoundedMean(rows, "performanceScore")

\* C29, first part: the answer has exactly one entry for each keyword row
\* read for the domain, computed for that row's value.
OneEntryPerKeyword ==
    /\ Len(rank.body) = Len(rank.domainKeywords)
    /\ \A k \in Elements(rank.domainKeywords) :
           Cardinality({j \in 1..Len(rank.body) :
                            rank.body[j].keyword = k.value})
               = Cardinality({j \in 1..Len(rank.domainKeywords) :
                                  rank.domainKeywords[j].value = k.value})
    /\ \A j \in 1..Len(rank.body) :
           \E i \in 1..Len(rank.rankings) : rank.body[j] = rank.rankings[i]

\* C29, second part: totalMentions descending, and avgPerformanceScore
\* descending among equal totalMentions.
RankedOrder ==
    \A i, j \in 1..Len(rank.body) :
        i < j =>
            \/ rank.body[i].totalMentions > rank.body[j].totalMentions
            \/ /\ rank.body[i].totalMentions = rank.body[j].totalMentions
               /\ rank.body[i].avgPerformanceScore
                      >= rank.body[j].avgPerformanceScore

\* C29: the answer of getKeywordRankings has one entry per keyword row of
\* the domain, ordered by totalMentions descending and then by
\* avgPerformanceScore descending, and no totalMentions exceeds the number
\* of analyses stored for the domain.
C29_OnePerKeywordRanked ==
    /\ RankingsAnswered => OneEntryPerKeyword /\ RankedOrder
    /\ \A i \in 1..Len(rank.rankings) :
           rank.rankings[i].totalMentions
               <= Cardinality({a \in 1..Len(analysesTable) :
                      analysesTable[a].domainId = rank.domainId})

\* Two keywords with one mention each were answered, the sort having moved
\* the one with the higher avgPerformanceScore first; an analysis of another
\* domain is stored.
C29_Witness ==
    /\ RankingsAnswered
    /\ Len(rank.body) = 2
    /\ rank.body[1].totalMentions = 1
    /\ rank.body[2].totalMentions = 1
    /\ rank.body[1].avgPerformanceScore > rank.body[2].avgPerformanceScore
    /\ rank.body[1].keyword = rank.domainKeywords[2].value
    /\ \E a \in 1..Len(analysesTable) : analysesTable[a].domainId = 2


----------------------------------------------------------------------------
(* Failures in the analyze route *)

\* The rows the answer of request r lists, in the order of the list.
AnsweredRows(r) ==
    [i \in 1..Len(req[r].analyses) |-> analysesTable[req[r].analyses[i]]]

\* The engines of request r whose call or store step failed.
FailedEngines(r) ==
    req[r].storeFailed
        \cup {req[r].replies[i].engine :
                  i \in {j \in 1..Len(req[r].replies) : ~req[r].replies[j].ok}}

\* C23: a request for an existing prompt ends with status 200 whatever
\* failed; its answer lists no record of an engine whose call or store step
\* failed and one record of every other requested engine, openai before
\* gemini and in the order of creation; gemini was run when requested,
\* also after a failure of openai; and every stored record is listed by
\* exactly one request, the one that asked for its prompt and engine.
C23_FailuresIsolated ==
    /\ \A r \in Reqs :
           (req[r].at = "done" /\ req[r].promptId \in DOMAIN promptsTable) =>
               LET rows == AnsweredRows(r)
               IN  /\ req[r].status = 200
                   /\ \A e \in req[r].engines :
                          Cardinality({i \in 1..Len(rows) : rows[i].engine = e})
                              = IF e \in FailedEngines(r) THEN 0 ELSE 1
                   /\ \A i \in 1..Len(rows) : rows[i].engine \in req[r].engines
                   /\ \A i, j \in 1..Len(rows) :
                          i < j => /\ rows[i].id < rows[j].id
                                   /\ rows[i].engine = "openai"
                                   /\ rows[j].engine = "gemini"
                   /\ "gemini" \in req[r].engines =>
                          \E i \in 1..Len(req[r].calls) :
                              req[r].calls[i].engine = "gemini"
    /\ \A id \in 1..Len(analysesTable) :
           /\ Cardinality({p \in Reqs \X (1..2) :
                              /\ p[2] <= Len(req[p[1]].analyses)
                              /\ req[p[1]].analyses[p[2]] = id}) = 1
           /\ \A r \in Reqs :
                  id \in Elements(req[r].analyses) =>
                      /\ analysesTable[id].promptId = req[r].promptId
                      /\ analysesTable[id].engine \in req[r].engines

\* A request for both engines was answered after the store of the openai
\* record failed: the answer lists the gemini record only.
C23_Witness ==
    /\ req[1].at = "done"
    /\ req[1].status = 200
    /\ req[1].engines = {"openai", "gemini"}
    /\ req[1].storeFailed = {"openai"}
    /\ Len(req[1].analyses) = 1
    /\ analysesTable[req[1].analyses[1]].engine = "gemini"


----------------------------------------------------------------------------
(* The domain analyze route *)

\* Request d was answered 200 with a domain.
DomainAnswered(d) ==
    dreq[d].at = "done" /\ dreq[d].status = 200 /\ dreq[d].body # {}

\* C22 as claimed: when the name posted is already stored (what Regenerate
\* posts) and the request succeeds, analyzeDomainWithAI was called for the
\* request and the description answered is the one it returned.
C22_RegenerateCallsAI ==
    \A d \in DReqs :
        (DomainAnswered(d) /\ dreq[d].found # {}) =>
            /\ dreq[d].calledAI
            /\ \A answer \in dreq[d].body :
                   \E analysisResult \in dreq[d].analysisResult :
                       answer.description = analysisResult.description

\* The keyword rows with these ids.
KeywordRows(ids) == {k \in keywordsTable.rows : k.id \in ids}

\* C24: no two domain rows have the same name; every keyword row created
\* by a request belongs to the domain row that request created and has a
\* value of that request's AI result; a request that found the name stored
\* called no AI and created no row; and the keyword rows of a new domain
\* were all created by the one request that created the domain.
C24_OneDomainPerName ==
    /\ \A x, y \in domainsStore.rows : x.name = y.name => x = y
    /\ \A d \in DReqs :
           /\ \A k \in KeywordRows(dreq[d].created) :
                  /\ \E row \in dreq[d].createdDomain :
                         /\ k.domainId = row.id
                         /\ row \in domainsStore.rows
                         /\ row.name = dreq[d].domainName
                  /\ \E analysisResult \in dreq[d].analysisResult :
                         \E i \in 1..Len(analysisResult.keywords) :
                             k.value = analysisResult.keywords[i].value
           /\ Cardinality(KeywordRows(dreq[d].created))
                  = Cardinality(dreq[d].created)
           /\ dreq[d].found # {} =>
                  /\ ~dreq[d].calledAI
                  /\ dreq[d].created = {}
                  /\ dreq[d].createdDomain = {}
    /\ \A k \in keywordsTable.rows :
           k \notin InitialKeywords =>
               \E d \in DReqs :
                   /\ k.id \in dreq[d].created
                   /\ \A o \in DReqs : k.id \in dreq[o].created => o = d
    /\ \A d, o \in DReqs :
           (d # o /\ dreq[d].createdDomain # {} /\ dreq[o].createdDomain # {}) =>
               \A x \in dreq[d].createdDomain, y \in dreq[o].createdDomain :
                   x.name # y.name

\* Two requests for the same new name both called the AI; the domain of one
\* was stored with its two keywords, the createDomain of the other was
\* rejected and it was answered 500.
C24_Witness ==
    /\ dreq[1].domainName = <<"n","e","w",".","i","o">>
    /\ dreq[2].domainName = <<"n","e","w",".","i","o">>
    /\ dreq[1].calledAI /\ dreq[2].calledAI
    /\ dreq[1].at = "done" /\ dreq[1].status = 500
    /\ dreq[1].analysisResult # {} /\ dreq[1].createdDomain = {}
    /\ dreq[2].at = "done" /\ dreq[2].status = 200
    /\ Cardinality(dreq[2].created) = 2
    /\ Cardinality({row \in domainsStore.rows : row.name = <<"n","e","w",".","i","o">>}) = 1

============================================================================
